---- MODULE Spec2Model ----
(***************************************************************************)
(* Position ledger of the portfolio tracker: the Portfolio aggregate       *)
(* (src/src/portfolio/portfolio.py), its Position objects                  *)
(* (src/src/portfolio/position.py), the SQLite store behind it             *)
(* (src/src/data/database.py) and the request handlers of server.py and    *)
(* app.py that drive the aggregate, and the analytics functions            *)
(* (src/src/portfolio/analytics.py) applied to the stored valuation        *)
(* history.                                                                *)
(*                                                                         *)
(* Numbers are Python floats in the source; the model keeps them as        *)
(* integers and keeps every quotient as an exact reduced fraction.         *)
(* An Optional value is a sequence: <<>> is None, <<x>> is the value x.    *)
(* The pandas floats of the analytics are finite fractions, NaN or an      *)
(* infinity; a standard deviation is kept as its square.                   *)
(***************************************************************************)
EXTENDS Integers, Sequences, FiniteSets, TLC

\* ---------------------------------------------------------------- bounds
\* Largest number of rows the positions table may hold (rows are never
\* deleted, so this caps the number of successful add_position calls).
MaxRows == 2
\* Largest number of rows of the portfolio_snapshots table.
MaxSnapshots == 1
\* Longest valuation history handed to calculate_max_drawdown.
MaxHistory == 5
\* Number of periods over which the return series handed to calculate_beta
\* are indexed.
MaxPeriods == 3
\* Largest number of snapshots saved where the order of the saves matters.
MaxSaves == 3
\* Latest clock reading at which a price is asked for.
MaxClock == 4
\* Longest valuation history handed to calculate_returns, and so one more
\* than the longest return series handed to the ratios.
MaxSeries == 4

\* ---------------------------------------------------------------- inputs
None == <<>>
Some(x) == <<x>>

\* Upper-case ticker identities and the strings a caller may type.
Symbols == {"AAPL", "MSFT"}
TickerInputs == {"AAPL", "aapl", "MSFT"}
\* The (quantity, entry_price) pairs a buy may carry: two regular buys, a
\* zero and a negative quantity, a zero price.
Orders == {<<10, 150>>, <<10, 170>>, <<0, 150>>, <<-10, 150>>, <<10, 0>>}
Quotes == {160, 180}
\* Buys entered through the form of app.py, whose number inputs start at 0.
FormOrders == {<<10, 150>>, <<10, 170>>, <<0, 150>>}
\* The buys of the removal and re-entry specification.
LifecycleOrders == {<<10, 150>>, <<5, 170>>}
\* The buys of the valuation-history specification.
HistoryOrders == {<<10, 150>>, <<0, 150>>}
\* Quantities a sell request may carry (partial, whole, more than held).
SellQuantities == {5, 10, 20}
\* What the market-data source answers for one ticker: a closing price, an
\* empty history, or an exception.
FetchResults ==
  {[kind |-> "data", close |-> x] : x \in Quotes}
    \cup {[kind |-> "empty", close |-> 0], [kind |-> "exception", close |-> 0]}
\* What the price source may answer a request for the benchmark's history:
\* closing prices, no rows, or an exception.
BenchmarkAnswers ==
  {[kind |-> "data", close |-> <<100, 110, 99>>],
   [kind |-> "data", close |-> <<100>>],
   [kind |-> "empty", close |-> <<>>],
   [kind |-> "exception", close |-> <<>>]}

\* The LIMIT the dashboard gives Database.get_snapshots (app.py:257).
SnapshotLimit == 30

\* PriceFetcher.cache_duration, timedelta(minutes=1), in clock units of 30 s.
cache_duration == 2

\* Clock advances between the last reading and a cache look-up: none, half
\* a minute, a minute.
CacheElapsed == {0, 1, 2}

\* Clock advances between two readings: none (the same reading) or one unit.
Elapsed == {0, 1}

\* Ticker strings a request handler may receive, the empty string included.
HandlerTickers == {"AAPL", "msft", ""}

\* Portfolio values a snapshot may record: an unpriced or empty portfolio (0)
\* and five levels that rise and fall.
ValueLevels == {0, 80, 90, 100, 120, 150}
\* Portfolio values behind calculate_returns: 100, a rise of a tenth, a fall
\* of a tenth, and 0.
ReturnLevels == {0, 99, 100, 110}
\* Portfolio values behind the return series of the ratios: they double,
\* halve, stay or drop to 0.
SeriesLevels == {0, 50, 100, 200}

\* Returns a period of a series handed to calculate_beta may carry, as
\* (numerator, denominator).
BetaReturns == {<<-1, 2>>, <<0, 1>>, <<1, 1>>}

\* str.upper() on the strings above.
Upper(t) ==
  CASE t = "aapl" -> "AAPL"
    [] t = "msft" -> "MSFT"
    [] OTHER -> t

\* ------------------------------------------------------------ arithmetic
Abs(n) == IF n < 0 THEN -n ELSE n

RECURSIVE GCD(_, _)
GCD(a, b) == IF b = 0 THEN a ELSE GCD(b, a % b)

\* The quotient n / d (d # 0) as a reduced fraction with positive denominator.
Ratio(n, d) ==
  LET g == GCD(Abs(n), Abs(d))
      s == IF d < 0 THEN -1 ELSE 1
  IN  [num |-> (s * n) \div g, den |-> (s * d) \div g]

Zero == [num |-> 0, den |-> 1]

\* A float: a finite value num / den in lowest terms, NaN, or an infinity
\* whose sign is num.
Num(n, d) ==
  [kind |-> "num", num |-> Ratio(n, d).num, den |-> Ratio(n, d).den]
NaN == [kind |-> "nan", num |-> 0, den |-> 1]
Inf(sign) == [kind |-> "inf", num |-> sign, den |-> 1]

\* Float division of two integers: x / 0 is NaN for x = 0 and an infinity
\* otherwise (numpy arithmetic, which raises nothing).
FloatDiv(a, b) ==
  IF b # 0 THEN Num(a, b)
  ELSE IF a = 0 THEN NaN
  ELSE IF a > 0 THEN Inf(1) ELSE Inf(-1)

\* Sum, difference, product and order of finite floats.
FAdd(a, b) ==
  LET l == (a.den \div GCD(a.den, b.den)) * b.den
  IN  Num(a.num * (l \div a.den) + b.num * (l \div b.den), l)
FSub(a, b) == FAdd(a, Num(-b.num, b.den))
FMul(a, b) == Num(a.num * b.num, a.den * b.den)
\* a <= b for floats that are not NaN.
FLeq(a, b) ==
  IF a.kind = "inf" THEN a.num < 0 \/ (b.kind = "inf" /\ b.num > 0)
  ELSE IF b.kind = "inf" THEN b.num > 0
  ELSE a.num * b.den <= b.num * a.den

RECURSIVE FSum(_)
FSum(xs) == IF xs = <<>> THEN Num(0, 1) ELSE FAdd(Head(xs), FSum(Tail(xs)))

\* Quotient of finite floats, b # 0.
FDiv(a, b) == Num(a.num * b.den, a.den * b.num)

\* Sum of the finite floats f[i] over the index set S.
RECURSIVE FSumOver(_, _)
FSumOver(S, f) ==
  IF S = {} THEN Num(0, 1)
  ELSE LET i == CHOOSE x \in S : TRUE IN FAdd(f[i], FSumOver(S \ {i}, f))

\* ------------------------------------------------------------- variables
VARIABLES
  positions,       \* Portfolio.positions: list of Position objects
  dbPositions,     \* rows of table positions (id = index)
  dbTransactions,  \* rows of table transactions
  dbSnapshots,     \* rows of table portfolio_snapshots
  last,            \* the call that ran last, its inputs and its outcome
  analyticsArgs,   \* the return series a pending analytics call was handed
  now,             \* the last reading of the clock (datetime.now())
  task,            \* where the background price-update thread stands
  request,         \* where the request the server is handling stands
  cache            \* PriceFetcher.cache: ticker -> (price, timestamp)

vars == <<positions, dbPositions, dbTransactions, dbSnapshots, last,
          analyticsArgs, now, task, request, cache>>
store == <<dbPositions, dbTransactions, dbSnapshots>>
\* What the methods of Portfolio, Database and the ratio functions leave
\* alone.
env == <<analyticsArgs, now, task, request, cache>>
\* The state the server's threads do not touch.
aside == <<analyticsArgs, now, cache>>

\* ---------------------------------------------------------------- Position
\* Position.__init__: the ticker is upper-cased, current_price starts None.
Position(ticker, quantity, entry_price, position_id) ==
  [id |-> position_id, ticker |-> Upper(ticker), quantity |-> quantity,
   entry_price |-> entry_price, current_price |-> None]

update_current_price(pos, price) == [pos EXCEPT !.current_price = Some(price)]

cost_basis(pos) == pos.quantity * pos.entry_price

market_value(pos) ==
  IF pos.current_price = None THEN None
  ELSE Some(pos.quantity * pos.current_price[1])

\* unrealized_pnl that returns the market value without taking the cost off.
unrealized_pnl_gross(pos) ==
  IF market_value(pos) = None THEN None
  ELSE Some(market_value(pos)[1])

unrealized_pnl(pos) ==
  IF market_value(pos) = None THEN None
  ELSE Some(market_value(pos)[1] - cost_basis(pos))

\* Position.unrealized_pnl_percent: the value returned and the exception
\* raised; the float division raises ZeroDivisionError when cost_basis is 0.
unrealized_pnl_percent(pos) ==
  IF unrealized_pnl(pos) = None THEN [raised |-> "none", value |-> None]
  ELSE IF cost_basis(pos) = 0
    THEN [raised |-> "ZeroDivisionError", value |-> None]
    ELSE [raised |-> "none",
          value |-> Some(Ratio(unrealized_pnl(pos)[1] * 100, cost_basis(pos)))]

\* Position.to_dict: the dictionary, or the exception of a property it reads.
to_dict(pos) ==
  IF unrealized_pnl_percent(pos).raised # "none"
    THEN [raised |-> unrealized_pnl_percent(pos).raised, value |-> None]
    ELSE [raised |-> "none",
          value |-> Some([id |-> pos.id, ticker |-> pos.ticker,
                          quantity |-> pos.quantity,
                          entry_price |-> pos.entry_price,
                          current_price |-> pos.current_price,
                          cost_basis |-> cost_basis(pos),
                          market_value |-> market_value(pos),
                          unrealized_pnl |-> unrealized_pnl(pos),
                          unrealized_pnl_percent |->
                            unrealized_pnl_percent(pos).value])]

\* ---------------------------------------------------------------- Database
\* Database.add_position: INSERT of one active row and of one BUY transaction.
db_add_position_rows(rows, ticker, quantity, entry_price) ==
  Append(rows, [id |-> Len(rows) + 1, ticker |-> Upper(ticker),
                quantity |-> quantity, entry_price |-> entry_price,
                active |-> 1])

db_add_transaction(txs, ticker, transaction_type, quantity, price) ==
  Append(txs, [ticker |-> Upper(ticker), transaction_type |-> transaction_type,
               quantity |-> quantity, price |-> price])

\* get_all_positions without the WHERE active = 1 filter.
db_get_all_positions_unfiltered(rows) == rows

\* Database.get_all_positions: the rows with active = 1, in rowid order.
RECURSIVE db_get_all_positions(_)
db_get_all_positions(rows) ==
  IF rows = <<>> THEN <<>>
  ELSE LET rest == db_get_all_positions(SubSeq(rows, 1, Len(rows) - 1))
           r == rows[Len(rows)]
       IN  IF r.active = 1 THEN Append(rest, r) ELSE rest

\* A close_position that leaves the row active.
db_close_position_kept(rows, position_id) == rows

\* Database.close_position: UPDATE positions SET active = 0 WHERE id = ?.
db_close_position(rows, position_id) ==
  [i \in 1..Len(rows) |->
     IF rows[i].id = position_id THEN [rows[i] EXCEPT !.active = 0]
     ELSE rows[i]]

\* --------------------------------------------------------------- Portfolio
\* Portfolio.get_position: index of the first Position whose ticker equals
\* ticker.upper(), 0 when there is none.
get_position(ps, ticker) ==
  LET hits == {i \in 1..Len(ps) : ps[i].ticker = Upper(ticker)}
  IN  IF hits = {} THEN 0
      ELSE CHOOSE i \in hits : \A j \in hits : i <= j

\* list.remove of the element at index i.
list_remove(ps, i) == SubSeq(ps, 1, i - 1) \o SubSeq(ps, i + 1, Len(ps))

\* Portfolio.load_positions: one Position per active row.
load_positions(rows) ==
  LET act == db_get_all_positions(rows)
  IN  [i \in 1..Len(act) |->
         Position(act[i].ticker, act[i].quantity, act[i].entry_price, act[i].id)]

\* Portfolio.add_position.  valid is the answer of
\* PriceFetcher.validate_ticker.  The result is the state after the call and
\* the exception it raised.
add_position(ps, rows, txs, ticker, quantity, entry_price, valid) ==
  IF ~valid
    THEN [positions |-> ps, dbPositions |-> rows, dbTransactions |-> txs,
          raised |-> "ValueError"]
    ELSE [positions |-> Append(ps, Position(ticker, quantity, entry_price,
                                            Len(rows) + 1)),
          dbPositions |-> db_add_position_rows(rows, ticker, quantity,
                                               entry_price),
          dbTransactions |-> db_add_transaction(txs, ticker, "BUY", quantity,
                                                entry_price),
          raised |-> "none"]

\* remove_position without the guard on a missing Position: it falls back to
\* the first Position of the list.
remove_position_unguarded(ps, rows, ticker) ==
  LET i == IF get_position(ps, ticker) # 0 THEN get_position(ps, ticker) ELSE 1
  IN  IF ps # <<>>
        THEN [positions |-> list_remove(ps, i),
              dbPositions |-> db_close_position(rows, ps[i].id),
              log |-> "info: Removed position"]
        ELSE [positions |-> ps, dbPositions |-> rows,
              log |-> "warning: Position not found"]

\* Portfolio.remove_position(ticker): closes and drops the Position found by
\* get_position, or logs a warning when there is none.
remove_position(ps, rows, ticker) ==
  LET i == get_position(ps, ticker)
  IN  IF i # 0
        THEN [positions |-> list_remove(ps, i),
              dbPositions |-> db_close_position(rows, ps[i].id),
              log |-> "info: Removed position"]
        ELSE [positions |-> ps, dbPositions |-> rows,
              log |-> "warning: Position not found"]

\* PriceFetcher.get_current_price: the last close, None when the history is
\* empty or the fetch raised (the exception is caught and logged).
get_current_price(answer) ==
  IF answer.kind = "data" THEN Some(answer.close) ELSE None

\* get_current_price with a cache that still serves an entry exactly
\* cache_duration old.
get_current_price_inclusive(c, ticker, answer, checked, stored) ==
  IF ticker \in DOMAIN c /\ checked - c[ticker].timestamp <= cache_duration
    THEN [cache |-> c, value |-> Some(c[ticker].price), fetched |-> FALSE]
  ELSE IF get_current_price(answer) # None
    THEN [cache |-> (ticker :> [price |-> get_current_price(answer)[1],
                                timestamp |-> stored]) @@ c,
          value |-> get_current_price(answer), fetched |-> TRUE]
    ELSE [cache |-> c, value |-> None, fetched |-> TRUE]

\* PriceFetcher.get_current_price with its cache c: the look-up reads the
\* clock at `checked`, a successful fetch is stored with the reading
\* `stored`; answer is what the source gives if it is asked.
get_current_price_cached(c, ticker, answer, checked, stored) ==
  IF ticker \in DOMAIN c /\ checked - c[ticker].timestamp < cache_duration
    THEN [cache |-> c, value |-> Some(c[ticker].price), fetched |-> FALSE]
  ELSE IF get_current_price(answer) # None
    THEN [cache |-> (ticker :> [price |-> get_current_price(answer)[1],
                                timestamp |-> stored]) @@ c,
          value |-> get_current_price(answer), fetched |-> TRUE]
    ELSE [cache |-> c, value |-> None, fetched |-> TRUE]

\* PriceFetcher.get_multiple_prices: one get_current_price per ticker.
get_multiple_prices(tickers, fetch) ==
  [t \in tickers |-> get_current_price(fetch[t])]

\* update_all_prices that stores whatever the lookup returned, None included.
update_all_prices_clearing(ps, fetch) ==
  IF ps = <<>> THEN ps
  ELSE LET prices == get_multiple_prices({ps[i].ticker : i \in 1..Len(ps)},
                                         fetch)
       IN  [i \in 1..Len(ps) |->
              [ps[i] EXCEPT !.current_price = prices[ps[i].ticker]]]

\* Portfolio.update_all_prices.  fetch is what the source answers for each
\* ticker during the call.
update_all_prices(ps, fetch) ==
  IF ps = <<>> THEN ps
  ELSE LET prices == get_multiple_prices({ps[i].ticker : i \in 1..Len(ps)},
                                         fetch)
       IN  [i \in 1..Len(ps) |->
              IF prices[ps[i].ticker] # None
                THEN update_current_price(ps[i], prices[ps[i].ticker][1])
                ELSE ps[i]]

RECURSIVE total_cost_basis(_)
total_cost_basis(ps) ==
  IF ps = <<>> THEN 0
  ELSE total_cost_basis(Tail(ps)) + cost_basis(Head(ps))

\* total_market_value that counts an unpriced Position at its cost basis.
RECURSIVE total_market_value_fallback(_)
total_market_value_fallback(ps) ==
  IF ps = <<>> THEN 0
  ELSE total_market_value_fallback(Tail(ps))
         + (IF market_value(Head(ps)) # None THEN market_value(Head(ps))[1]
            ELSE cost_basis(Head(ps)))

RECURSIVE total_market_value(_)
total_market_value(ps) ==
  IF ps = <<>> THEN 0
  ELSE total_market_value(Tail(ps))
         + (IF market_value(Head(ps)) # None THEN market_value(Head(ps))[1]
            ELSE 0)

total_unrealized_pnl(ps) == total_market_value(ps) - total_cost_basis(ps)

total_unrealized_pnl_percent(ps) ==
  IF total_cost_basis(ps) = 0 THEN Zero
  ELSE Ratio(total_unrealized_pnl(ps) * 100, total_cost_basis(ps))

\* Portfolio.get_allocation: a later Position of a ticker overwrites the
\* entry of an earlier one.
get_allocation(ps) ==
  IF total_market_value(ps) = 0 THEN [t \in {} |-> Zero]
  ELSE LET priced == {i \in 1..Len(ps) : market_value(ps[i]) # None}
           lastOf(t) == CHOOSE i \in priced :
                          /\ ps[i].ticker = t
                          /\ \A j \in priced : ps[j].ticker = t => j <= i
       IN  [t \in {ps[i].ticker : i \in priced} |->
              Ratio(market_value(ps[lastOf(t)])[1] * 100,
                    total_market_value(ps))]

get_summary(ps) ==
  [total_positions |-> Len(ps),
   total_cost_basis |-> total_cost_basis(ps),
   total_market_value |-> total_market_value(ps),
   total_unrealized_pnl |-> total_unrealized_pnl(ps),
   total_unrealized_pnl_percent |-> total_unrealized_pnl_percent(ps),
   allocation |-> get_allocation(ps)]

\* Portfolio.get_positions_data: to_dict of every Position in list order; the
\* first exception of a to_dict ends the call.
get_positions_data(ps) ==
  IF \E i \in 1..Len(ps) : to_dict(ps[i]).raised # "none"
    THEN [raised |-> "ZeroDivisionError", value |-> None]
    ELSE [raised |-> "none",
          value |-> Some([i \in 1..Len(ps) |-> to_dict(ps[i]).value[1]])]

\* The orders in which ORDER BY snapshot_date DESC can list the rows: every
\* arrangement with no row before a later-dated one (SQLite leaves the order
\* of equal dates open).
RECURSIVE Descending(_, _)
Descending(snaps, S) ==
  IF S = {} THEN {<<>>}
  ELSE UNION {{<<snaps[k]>> \o rest : rest \in Descending(snaps, S \ {k})} :
                k \in {k \in S : \A j \in S : snaps[k].snapshot_date
                                               >= snaps[j].snapshot_date}}

NewestFirst(snaps) == Descending(snaps, 1..Len(snaps))

\* Database.get_snapshots(days): the results the query can give, the first
\* `days` rows of a newest-first listing.
get_snapshots(snaps, days) ==
  {SubSeq(listing, 1, IF days < Len(listing) THEN days ELSE Len(listing)) :
     listing \in NewestFirst(snaps)}

\* A save that puts its row first.
save_snapshot_first(snaps, ps, stamp) ==
  <<[snapshot_date |-> stamp,
     total_value |-> total_market_value(ps),
     total_cost |-> total_cost_basis(ps),
     total_pnl |-> total_unrealized_pnl(ps),
     total_pnl_percent |-> total_unrealized_pnl_percent(ps)]>> \o snaps

\* Portfolio.save_snapshot -> Database.save_snapshot: one appended row.
save_snapshot(snaps, ps, stamp) ==
  Append(snaps, [snapshot_date |-> stamp,
                 total_value |-> total_market_value(ps),
                 total_cost |-> total_cost_basis(ps),
                 total_pnl |-> total_unrealized_pnl(ps),
                 total_pnl_percent |-> total_unrealized_pnl_percent(ps)])

\* PriceFetcher.get_historical_data: the data frame's Close column, None
\* when the source has no rows or raises.
get_historical_data(answer) ==
  IF answer.kind = "data" THEN Some(answer.close) ELSE None

\* --------------------------------------------------------------- analytics
\* server.py get_analytics: the Series of the total_value of every row of
\* the history.
snapshot_values(snaps) == [i \in 1..Len(snaps) |-> snaps[i].total_value]

\* Series.pct_change: NaN first, then values[i] / values[i-1] - 1.
pct_change(values) ==
  [i \in 1..Len(values) |->
     IF i = 1 THEN NaN
     ELSE IF values[i - 1] # 0
       THEN Num(values[i] - values[i - 1], values[i - 1])
       ELSE FloatDiv(values[i], 0)]

\* Series.dropna: the elements that are not NaN (an infinity is kept).
dropna(xs) == SelectSeq(xs, LAMBDA x : x.kind # "nan")

\* calculate_returns without dropna: the leading NaN of pct_change stays.
calculate_returns_undropped(values) ==
  IF Len(values) = 0 THEN <<>>
  ELSE pct_change(values)

\* PortfolioAnalytics.calculate_returns
calculate_returns(values) ==
  IF Len(values) = 0 THEN <<>>
  ELSE dropna(pct_change(values))

\* PortfolioAnalytics.get_benchmark_returns: `data.empty` is read off
\* whatever get_historical_data returned, None included.
get_benchmark_returns(answer) ==
  LET data == get_historical_data(answer)
  IN  IF data = None
        THEN [raised |-> "AttributeError", value |-> None]
      ELSE IF Len(data[1]) = 0
        THEN [raised |-> "none", value |-> Some(<<>>)]
        ELSE [raised |-> "none", value |-> Some(dropna(pct_change(data[1])))]

\* Series.mean of a series without NaN: NaN when empty or when both
\* infinities occur, an infinity when one occurs.
Mean(xs) ==
  LET up == \E i \in 1..Len(xs) : xs[i] = Inf(1)
      down == \E i \in 1..Len(xs) : xs[i] = Inf(-1)
  IN  IF xs = <<>> \/ (up /\ down) THEN NaN
      ELSE IF up THEN Inf(1)
      ELSE IF down THEN Inf(-1)
      ELSE FMul(FSum(xs), Num(1, Len(xs)))

\* The square of Series.std (ddof = 1) of a series without NaN: NaN for
\* fewer than two elements and when an element is infinite.  std() is 0
\* exactly when its square is, and NaN exactly when its square is.
StdSquared(xs) ==
  IF Len(xs) < 2 \/ \E i \in 1..Len(xs) : xs[i].kind # "num" THEN NaN
  ELSE LET m == Mean(xs)
           sq == [i \in 1..Len(xs) |-> FMul(FSub(xs[i], m), FSub(xs[i], m))]
       IN  FMul(FSum(sq), Num(1, Len(xs) - 1))

\* The float sqrt(x) of a finite x >= 0, kept as its radicand unless it is 0.
Sqrt(x) ==
  IF x.num = 0 THEN Num(0, 1)
  ELSE [kind |-> "sqrt", num |-> x.num, den |-> x.den]

\* The float (mean - daily_rf) / sqrt(square) * sqrt(252) for a finite mean
\* and a finite square > 0, kept as its three parts.
Scaled(mean, square) ==
  [kind |-> "scaled", mean |-> mean, square |-> square, factor |-> 252]

\* excess < 0 for the excess return r - daily_rf, where daily_rf =
\* 1.02 ** (1/252) - 1 lies between 1/12726 and 1/12725.
BelowRiskFree(r) ==
  IF r.kind = "inf" THEN r.num < 0
  ELSE r.num * 12725 < r.den

\* PortfolioAnalytics.calculate_sharpe_ratio: NaN == 0 is false, and a
\* quotient by NaN is NaN.
calculate_sharpe_ratio(returns) ==
  IF Len(returns) = 0 \/ StdSquared(returns) = Num(0, 1) THEN Num(0, 1)
  ELSE IF StdSquared(returns).kind = "nan" THEN NaN
  ELSE Scaled(Mean(returns), StdSquared(returns))

\* PortfolioAnalytics.calculate_volatility
calculate_volatility(returns, annualized) ==
  IF Len(returns) = 0 THEN Num(0, 1)
  ELSE IF StdSquared(returns).kind = "nan" THEN NaN
  ELSE IF annualized THEN Sqrt(FMul(StdSquared(returns), Num(252, 1)))
  ELSE Sqrt(StdSquared(returns))

\* PortfolioAnalytics.calculate_max_drawdown: Series.min skips NaN and is NaN
\* when nothing is left.
calculate_max_drawdown(values) ==
  IF Len(values) = 0 THEN [pct |-> Num(0, 1), value |-> Num(0, 1)]
  ELSE LET running_max == [i \in 1..Len(values) |->
                             CHOOSE m \in {values[j] : j \in 1..i} :
                               \A j \in 1..i : values[j] <= m]
           drawdown == dropna([i \in 1..Len(values) |->
                                 FloatDiv(values[i] - running_max[i],
                                          running_max[i])])
           lowest == CHOOSE x \in {drawdown[i] : i \in 1..Len(drawdown)} :
                       \A i \in 1..Len(drawdown) : FLeq(x, drawdown[i])
           fall == CHOOSE d \in {values[i] - running_max[i] :
                                   i \in 1..Len(values)} :
                     \A i \in 1..Len(values) : d <= values[i] - running_max[i]
       IN  [pct |-> IF drawdown = <<>> THEN NaN
                    ELSE IF lowest.kind = "inf" THEN lowest
                    ELSE FMul(lowest, Num(100, 1)),
            value |-> Num(fall, 1)]

\* PortfolioAnalytics.calculate_sortino_ratio.  The spread of the excess
\* returns below 0 is the spread of the returns they come from.
calculate_sortino_ratio(returns) ==
  LET downside_returns == SelectSeq(returns, BelowRiskFree)
  IN  IF Len(returns) = 0 THEN Num(0, 1)
      ELSE IF Len(downside_returns) = 0
                \/ StdSquared(downside_returns) = Num(0, 1)
        THEN Num(0, 1)
      ELSE IF StdSquared(downside_returns).kind = "nan"
                \/ Mean(returns).kind = "nan"
        THEN NaN
      ELSE IF Mean(returns).kind = "inf" THEN Mean(returns)
      ELSE Scaled(Mean(returns), StdSquared(downside_returns))

\* Series.cov (ddof = 1) of two series of finite floats over the same
\* index set S of at least two periods; Series.var is the cov of a series
\* with itself.
Cov(S, f, g) ==
  LET n == Num(1, Cardinality(S))
      mf == FMul(FSumOver(S, f), n)
      mg == FMul(FSumOver(S, g), n)
      prod == [i \in S |-> FMul(FSub(f[i], mf), FSub(g[i], mg))]
  IN  FMul(FSumOver(S, prod), Num(1, Cardinality(S) - 1))

\* calculate_beta that takes the market variance over all the market's
\* periods instead of the aligned ones.
calculate_beta_unaligned(portfolio_returns, market_returns) ==
  LET aligned == DOMAIN portfolio_returns \cap DOMAIN market_returns
      all == DOMAIN market_returns
  IN  IF DOMAIN portfolio_returns = {} \/ DOMAIN market_returns = {}
        THEN Num(0, 1)
      ELSE IF Cardinality(aligned) < 2 THEN Num(0, 1)
      ELSE IF Cov(all, market_returns, market_returns) = Num(0, 1)
        THEN Num(0, 1)
      ELSE FDiv(Cov(aligned, portfolio_returns, market_returns),
                Cov(all, market_returns, market_returns))

\* PortfolioAnalytics.calculate_beta.  A series is a function from the
\* periods of its index to finite floats; the DataFrame of the two series
\* has a NaN wherever a period is missing from one, and dropna keeps the
\* periods both have.
calculate_beta(portfolio_returns, market_returns) ==
  LET aligned == DOMAIN portfolio_returns \cap DOMAIN market_returns
  IN  IF DOMAIN portfolio_returns = {} \/ DOMAIN market_returns = {}
        THEN Num(0, 1)
      ELSE IF Cardinality(aligned) < 2 THEN Num(0, 1)
      ELSE IF Cov(aligned, market_returns, market_returns) = Num(0, 1)
        THEN Num(0, 1)
      ELSE FDiv(Cov(aligned, portfolio_returns, market_returns),
                Cov(aligned, market_returns, market_returns))

\* ------------------------------------------------------------------ record
\* What `last` keeps of a call: the operation, its inputs, the quantity held
\* for the ticker when it started, the exception that reached the caller
\* ("none" when it returned), the HTTP status or message of a handler, the
\* log line written and the value returned.
Call(op, ticker, quantity, price, held, raised, reply, log, value) ==
  [op |-> op, ticker |-> ticker, quantity |-> quantity, price |-> price,
   held |-> held, raised |-> raised, reply |-> reply, log |-> log,
   value |-> value]

Held(ps, ticker) ==
  IF get_position(ps, ticker) = 0 THEN None
  ELSE Some(ps[get_position(ps, ticker)].quantity)

\* -------------------------------------------------------------------- Init
\* No analytics call is pending.
NoArgs == [portfolio |-> <<>>, market |-> <<>>]
EnvInit ==
  /\ analyticsArgs = NoArgs
  /\ now = Len(dbSnapshots)
  /\ task = "check"
  /\ request = "none"
  /\ cache = <<>>

\* An empty database and the Portfolio constructed over it.
Init ==
  /\ dbPositions = <<>>
  /\ dbTransactions = <<>>
  /\ dbSnapshots = <<>>
  /\ positions = load_positions(<<>>)
  /\ last = Call("init", "", None, None, None, "none", "", "", None)
  /\ EnvInit

\* ----------------------------------------------------------------- actions
\* Portfolio.add_position(ticker, quantity, entry_price)
AddPosition(ticker, quantity, entry_price, valid) ==
  LET r == add_position(positions, dbPositions, dbTransactions, ticker,
                        quantity, entry_price, valid)
  IN  /\ Len(dbPositions) < MaxRows
      /\ positions' = r.positions
      /\ dbPositions' = r.dbPositions
      /\ dbTransactions' = r.dbTransactions
      /\ UNCHANGED dbSnapshots
      /\ UNCHANGED env
      /\ last' = Call("add_position", ticker, None, None,
                      Held(positions, ticker), r.raised, "", "", None)

\* Portfolio.remove_position(ticker)
RemovePosition(ticker) ==
  LET r == remove_position(positions, dbPositions, ticker)
  IN  /\ positions' = r.positions
      /\ dbPositions' = r.dbPositions
      /\ UNCHANGED <<dbTransactions, dbSnapshots>>
      /\ UNCHANGED env
      /\ last' = Call("remove_position", ticker, None, None,
                      Held(positions, ticker), "none", "", r.log, None)

\* Portfolio.update_all_prices()
UpdateAllPrices(fetch) ==
  /\ positions' = update_all_prices(positions, fetch)
  /\ UNCHANGED store
  /\ UNCHANGED env
  /\ last' = Call("update_all_prices", "", None, None, None, "none", "", "",
                  Some(fetch))

\* Portfolio.get_summary()
GetSummary ==
  /\ UNCHANGED <<positions, store>>
  /\ UNCHANGED env
  /\ last' = Call("get_summary", "", None, None, None, "none", "", "",
                  Some(get_summary(positions)))

\* Portfolio.get_positions_data()
GetPositionsData ==
  LET r == get_positions_data(positions)
  IN  /\ UNCHANGED <<positions, store>>
      /\ UNCHANGED env
      /\ last' = Call("get_positions_data", "", None, None, None, r.raised,
                      "", "", r.value)

\* Portfolio.save_snapshot(), called when the clock has advanced by elapsed
\* since it was last read.
SaveSnapshot(elapsed) ==
  /\ now' = now + elapsed
  /\ dbSnapshots' = save_snapshot(dbSnapshots, positions, now')
  /\ UNCHANGED <<positions, dbPositions, dbTransactions, analyticsArgs,
                 task, request, cache>>
  /\ last' = Call("save_snapshot", "", None, None, None, "none", "", "", None)

\* The analytics of server.py get_analytics over the stored history: the
\* valuation series and the return series derived from it.
HistoryValues == snapshot_values(dbSnapshots)
HistoryReturns == calculate_returns(HistoryValues)

\* analytics.calculate_returns(values)
CalculateReturns ==
  /\ UNCHANGED <<positions, store>>
  /\ UNCHANGED env
  /\ last' = Call("calculate_returns", "", None, None, None, "none", "", "",
                  Some(calculate_returns(HistoryValues)))

\* analytics.calculate_max_drawdown(values)
CalculateMaxDrawdown ==
  /\ UNCHANGED <<positions, store>>
  /\ UNCHANGED env
  /\ last' = Call("calculate_max_drawdown", "", None, None, None, "none", "",
                  "", Some(calculate_max_drawdown(HistoryValues)))

\* analytics.calculate_sharpe_ratio(returns)
CalculateSharpeRatio ==
  /\ UNCHANGED <<positions, store>>
  /\ UNCHANGED env
  /\ last' = Call("calculate_sharpe_ratio", "", None, None, None, "none", "",
                  "", Some(calculate_sharpe_ratio(HistoryReturns)))

\* analytics.calculate_volatility(returns, annualized)
CalculateVolatility(annualized) ==
  /\ UNCHANGED <<positions, store>>
  /\ UNCHANGED env
  /\ last' = Call("calculate_volatility", "", None, None, None, "none", "",
                  "", Some([annualized |-> annualized,
                            volatility |->
                              calculate_volatility(HistoryReturns, annualized)]))

\* analytics.calculate_sortino_ratio(returns)
CalculateSortinoRatio ==
  /\ UNCHANGED <<positions, store>>
  /\ UNCHANGED env
  /\ last' = Call("calculate_sortino_ratio", "", None, None, None, "none", "",
                  "", Some(calculate_sortino_ratio(HistoryReturns)))

\* analytics.calculate_beta(portfolio_returns, market_returns) on the series
\* the call was handed.
CalculateBeta ==
  /\ UNCHANGED <<positions, store, env>>
  /\ last' = Call("calculate_beta", "", None, None, None, "none", "", "",
                  Some([portfolio |-> analyticsArgs.portfolio,
                        market |-> analyticsArgs.market,
                        beta |-> calculate_beta(analyticsArgs.portfolio,
                                                analyticsArgs.market)]))

\* Portfolio.__init__ of a new process over the same database file.
LoadPositions ==
  /\ positions' = load_positions(dbPositions)
  /\ UNCHANGED store
  /\ UNCHANGED env
  /\ last' = Call("load_positions", "", None, None, None, "none", "", "", None)

\* ---------------------------------------------------------------- handlers
\* The methods the classes define, with the least and the largest number of
\* arguments each accepts (self not counted).
PortfolioMethods ==
  [load_positions |-> <<0, 0>>, add_position |-> <<3, 3>>,
   remove_position |-> <<1, 1>>, get_position |-> <<1, 1>>,
   update_all_prices |-> <<0, 0>>, get_allocation |-> <<0, 0>>,
   get_summary |-> <<0, 0>>, get_positions_data |-> <<0, 0>>,
   save_snapshot |-> <<0, 0>>, close |-> <<0, 0>>]

DatabaseMethods ==
  [add_position |-> <<3, 4>>, get_all_positions |-> <<0, 0>>,
   update_position |-> <<2, 2>>, close_position |-> <<1, 1>>,
   add_transaction |-> <<4, 5>>, get_transactions |-> <<0, 1>>,
   save_snapshot |-> <<4, 4>>, get_snapshots |-> <<0, 1>>, close |-> <<0, 0>>]

\* The exception Python raises when method `name` of a class is called with
\* nargs arguments, "none" when the call is well formed.
CallError(methods, name, nargs) ==
  IF name \notin DOMAIN methods THEN "AttributeError"
  ELSE IF nargs < methods[name][1] \/ nargs > methods[name][2]
         THEN "TypeError"
         ELSE "none"

\* server.py add_position (POST /api/positions).
server_add_position(ps, rows, txs, ticker_in, quantity, price) ==
  LET ticker == Upper(ticker_in)
      same == [positions |-> ps, dbPositions |-> rows, dbTransactions |-> txs]
  IN  IF ticker = "" \/ quantity <= 0 \/ price <= 0
        THEN same @@ [reply |-> "400", error |-> "Invalid input"]
        ELSE \* db.get_cash_balance() raises, caught at server.py:198
             same @@ [reply |-> "500",
                      error |-> CallError(DatabaseMethods, "get_cash_balance", 0)]

\* server.py remove_position (DELETE /api/positions/<ticker>); quantity is
\* None when the request carries none.
server_remove_position(ps, rows, txs, ticker_in, quantity) ==
  LET ticker == Upper(ticker_in)
      same == [positions |-> ps, dbPositions |-> rows, dbTransactions |-> txs]
  IN  IF get_position(ps, ticker) = 0
        THEN same @@ [reply |-> "404", error |-> "Position not found"]
        ELSE \* db.update_cash_balance(proceeds, 'SELL') raises, caught at
             \* server.py:249
             same @@ [reply |-> "500",
                      error |-> CallError(DatabaseMethods,
                                          "update_cash_balance", 2)]

AnalyticsMethods ==
  [calculate_sharpe_ratio |-> <<1, 2>>, calculate_volatility |-> <<1, 2>>,
   calculate_max_drawdown |-> <<1, 1>>, calculate_returns |-> <<1, 1>>,
   calculate_beta |-> <<2, 2>>, calculate_alpha |-> <<2, 3>>,
   get_benchmark_returns |-> <<0, 2>>,
   calculate_correlation_matrix |-> <<1, 2>>, calculate_var |-> <<1, 2>>,
   calculate_sortino_ratio |-> <<1, 2>>]

\* The analytics object server.py get_analytics returns in its zero state.
ZeroAnalytics ==
  [sharpe_ratio |-> 0, volatility |-> 0, max_drawdown |-> 0, beta |-> 0,
   alpha |-> 0, var_95 |-> 0]

\* server.py get_analytics (GET /api/analytics).
server_get_analytics(ps) ==
  IF Len(ps) = 0
    THEN [reply |-> "200", error |-> "", analytics |-> Some(ZeroAnalytics),
          handed |-> None]
    ELSE \* db.get_portfolio_history(days=90) raises, caught at server.py:366
         [reply |-> "500",
          error |-> CallError(DatabaseMethods, "get_portfolio_history", 1),
          analytics |-> None, handed |-> None]

\* DataFrame.sort_values('snapshot_date') of a listing: the arrangements in
\* non-decreasing date order.
RECURSIVE Ascending(_, _)
Ascending(listing, S) ==
  IF S = {} THEN {<<>>}
  ELSE UNION {{<<listing[k]>> \o rest : rest \in Ascending(listing, S \ {k})} :
                k \in {k \in S : \A j \in S : listing[k].snapshot_date
                                               <= listing[j].snapshot_date}}

sort_values(listing) == Ascending(listing, 1..Len(listing))

\* app.py "Performance Metrics" section over the listing get_snapshots(30)
\* returned and the data frame sort_values made of it.
app_performance_unsorted(snapshots, sorted) ==
  IF Len(snapshots) > 1
    THEN [reply |-> "error",
          error |-> CallError(AnalyticsMethods, "get_performance_summary", 2),
          analytics |-> None, handed |-> Some(snapshots)]
    ELSE [reply |-> "info",
          error |-> "Portfolio history data is limited",
          analytics |-> None, handed |-> None]

app_performance(snapshots, sorted) ==
  IF Len(snapshots) > 1
    THEN \* PortfolioAnalytics.get_performance_summary(analytics_df,
         \* positions_data) raises
         [reply |-> "error",
          error |-> CallError(AnalyticsMethods, "get_performance_summary", 2),
          analytics |-> None, handed |-> Some(sorted)]
    ELSE [reply |-> "info",
          error |-> "Portfolio history data is limited",
          analytics |-> None, handed |-> None]

\* The classes `except Exception` catches, among those the model raises.
ExceptionClasses ==
  {"AttributeError", "TypeError", "ValueError", "ZeroDivisionError"}

\* A background task whose handler catches ValueError alone: any other
\* exception ends the thread.
task_after_update_narrow(error) ==
  IF error = "none" \/ error = "ValueError" THEN "sleep" ELSE "dead"

\* server.py background_price_update: where the thread goes after the body
\* of its try block ended with `error` ("none": it ran through).
task_after_update(error) ==
  IF error = "none" \/ error \in ExceptionClasses THEN "sleep" ELSE "dead"

\* server.py background_price_update, the body of the try block reached
\* when positions were found: portfolio.update_prices() raises.
background_update(ps) ==
  [positions |-> ps,
   error |-> CallError(PortfolioMethods, "update_prices", 0)]

\* server.py reset_account, the loop over the positions: db.remove_position
\* raises for the first Position, an empty list passes.
reset_loop(ps) ==
  IF Len(ps) > 0
    THEN [next |-> "none", reply |-> "500",
          error |-> CallError(DatabaseMethods, "remove_position", 1)]
    ELSE [next |-> "reset_clear", reply |-> "", error |-> ""]

\* server.py reset_account, db.reset_account() after the list was cleared:
\* raises, caught at server.py:134.
reset_db(ps) ==
  [next |-> "none", reply |-> "500",
   error |-> CallError(DatabaseMethods, "reset_account", 0)]

\* app.py Buy button.
app_buy(ps, rows, txs, ticker_in, quantity, price, valid) ==
  LET ticker == Upper(ticker_in)
      same == [positions |-> ps, dbPositions |-> rows, dbTransactions |-> txs]
      r == add_position(ps, rows, txs, ticker, quantity, price, valid)
      txs2 == db_add_transaction(r.dbTransactions, ticker, "BUY", quantity,
                                 price)
      existing == db_get_all_positions(r.dbPositions)
      ticker_exists == \E i \in 1..Len(existing) : existing[i].ticker = ticker
  IN  IF ticker = ""
        THEN same @@ [reply |-> "warning", error |-> "Please enter a ticker symbol"]
      ELSE IF r.raised # "none"
        THEN same @@ [reply |-> "error", error |-> r.raised]
      ELSE IF ticker_exists
        THEN \* db.update_position(ticker, pos.quantity, pos.entry_price)
             [positions |-> r.positions, dbPositions |-> r.dbPositions,
              dbTransactions |-> txs2, reply |-> "error",
              error |-> CallError(DatabaseMethods, "update_position", 3)]
        ELSE [positions |-> r.positions,
              dbPositions |-> db_add_position_rows(r.dbPositions, ticker,
                                                   quantity, price),
              dbTransactions |-> db_add_transaction(txs2, ticker, "BUY",
                                                    quantity, price),
              reply |-> "success", error |-> ""]

\* app.py Sell button.
app_sell(ps, rows, txs, ticker_in, quantity) ==
  LET ticker == Upper(ticker_in)
      same == [positions |-> ps, dbPositions |-> rows, dbTransactions |-> txs]
      pos == get_position(ps, ticker)
  IN  IF ticker = ""
        THEN same @@ [reply |-> "warning", error |-> "Please enter a ticker symbol"]
      ELSE IF pos # 0 /\ ps[pos].quantity >= quantity
        THEN \* portfolio.remove_position(ticker, quantity) raises, caught at
             \* app.py:106
             same @@ [reply |-> "error",
                      error |-> CallError(PortfolioMethods, "remove_position", 2)]
        ELSE same @@ [reply |-> "error", error |-> "Insufficient shares"]

ServerAddPosition(ticker, quantity, price) ==
  LET r == server_add_position(positions, dbPositions, dbTransactions, ticker,
                               quantity, price)
  IN  /\ positions' = r.positions
      /\ dbPositions' = r.dbPositions
      /\ dbTransactions' = r.dbTransactions
      /\ UNCHANGED dbSnapshots
      /\ UNCHANGED env
      /\ last' = Call("server.add_position", ticker, None, None,
                      Held(positions, ticker), "none", r.reply, r.error, None)

ServerRemovePosition(ticker, quantity) ==
  LET r == server_remove_position(positions, dbPositions, dbTransactions,
                                  ticker, quantity)
  IN  /\ positions' = r.positions
      /\ dbPositions' = r.dbPositions
      /\ dbTransactions' = r.dbTransactions
      /\ UNCHANGED dbSnapshots
      /\ UNCHANGED env
      /\ last' = Call("server.remove_position", ticker, quantity, None,
                      Held(positions, ticker), "none", r.reply, r.error, None)

AppBuy(ticker, quantity, price, valid) ==
  LET r == app_buy(positions, dbPositions, dbTransactions, ticker, quantity,
                   price, valid)
  IN  /\ Len(dbPositions) < MaxRows
      /\ positions' = r.positions
      /\ dbPositions' = r.dbPositions
      /\ dbTransactions' = r.dbTransactions
      /\ UNCHANGED dbSnapshots
      /\ UNCHANGED env
      /\ last' = Call("app.buy", ticker, None, None, Held(positions, ticker),
                      "none", r.reply, r.error, None)

AppSell(ticker, quantity) ==
  LET r == app_sell(positions, dbPositions, dbTransactions, ticker, quantity)
  IN  /\ positions' = r.positions
      /\ dbPositions' = r.dbPositions
      /\ dbTransactions' = r.dbTransactions
      /\ UNCHANGED dbSnapshots
      /\ UNCHANGED env
      /\ last' = Call("app.sell", ticker, Some(quantity), None,
                      Held(positions, ticker), "none", r.reply, r.error, None)

\* ---------------------------------------------------------- specifications
PriceTables == [Symbols -> FetchResults]
\* Refreshes in which the source gives every ticker the same answer.
HistoryTables == {[t \in Symbols |-> r] : r \in FetchResults}
SellRequests == {None} \cup {Some(q) : q \in SellQuantities}

\* The Portfolio aggregate driven through its own methods.
Next ==
  \/ \E t \in TickerInputs, o \in Orders, v \in BOOLEAN :
       AddPosition(t, o[1], o[2], v)
  \/ \E t \in TickerInputs : RemovePosition(t)
  \/ \E fetch \in PriceTables : UpdateAllPrices(fetch)
  \/ GetSummary
  \/ LoadPositions

Spec == Init /\ [][Next]_vars

\* The aggregate driven through the handlers of server.py and app.py.
NextHandlers ==
  \/ \E t \in HandlerTickers, o \in Orders : ServerAddPosition(t, o[1], o[2])
  \/ \E t \in HandlerTickers, q \in SellRequests : ServerRemovePosition(t, q)
  \/ \E t \in HandlerTickers, o \in FormOrders, v \in BOOLEAN :
       AppBuy(t, o[1], o[2], v)
  \/ \E t \in HandlerTickers, q \in SellQuantities : AppSell(t, q)
  \/ \E t \in TickerInputs : RemovePosition(t)
  \/ LoadPositions

SpecHandlers == Init /\ [][NextHandlers]_vars

\* PortfolioAnalytics.get_benchmark_returns('SPY', period='3mo'), the source
\* answering `answer`.
GetBenchmarkReturns(answer) ==
  LET r == get_benchmark_returns(answer)
  IN  /\ UNCHANGED <<positions, store, env>>
      /\ last' = Call("get_benchmark_returns", "SPY", None, None, None,
                      r.raised, "", answer.kind, r.value)

\* PriceFetcher.get_current_price(ticker): the clock has advanced by elapsed
\* when the cache is looked at and by lag more when a fetched price is
\* stored.
GetCurrentPrice(ticker, answer, elapsed, lag) ==
  LET r == get_current_price_cached(cache, ticker, answer, now + elapsed,
                                    now + elapsed + lag)
  IN  /\ now + elapsed + lag <= MaxClock
      /\ cache' = r.cache
      /\ now' = IF r.fetched /\ r.value # None THEN now + elapsed + lag
                ELSE now + elapsed
      /\ UNCHANGED <<positions, store, analyticsArgs, task, request>>
      /\ last' = Call("get_current_price", ticker, None, None, None, "none",
                      "", answer.kind,
                      Some([checked |-> now + elapsed, fetched |-> r.fetched,
                            close |-> answer.close, price |-> r.value]))

\* ------------------------------------------------- the server's two threads
\* background_price_update: `if len(portfolio.positions) > 0`.
TaskCheck ==
  /\ task = "check"
  /\ task' = IF Len(positions) > 0 THEN "update" ELSE "sleep"
  /\ UNCHANGED <<positions, store, aside, request>>
  /\ last' = Call("background.check", "", None, None, None, "none", "", "",
                  None)

\* background_price_update: portfolio.update_prices() and the emit, with the
\* except clause around them.
TaskUpdate ==
  LET r == background_update(positions)
  IN  /\ task = "update"
      /\ task' = task_after_update(r.error)
      /\ positions' = r.positions
      /\ UNCHANGED <<store, aside, request>>
      /\ last' = Call("background.update", "", None, None, None, "none", "",
                      r.error, None)

\* background_price_update: time.sleep(30) returns.
TaskSleep ==
  /\ task = "sleep"
  /\ task' = "check"
  /\ UNCHANGED <<positions, store, aside, request>>
  /\ last' = Call("background.sleep", "", None, None, None, "none", "", "",
                  None)

\* A request enters the try block of add_position, remove_position or
\* reset_account.
ServeBegin(route) ==
  /\ request = "none"
  /\ request' = route
  /\ UNCHANGED <<positions, store, aside, task>>
  /\ last' = Call("server.begin", "", None, None, None, "none", "", route,
                  None)

\* The body of add_position (POST /api/positions).
ServeAdd(ticker, quantity, price) ==
  LET r == server_add_position(positions, dbPositions, dbTransactions, ticker,
                               quantity, price)
  IN  /\ request = "add"
      /\ request' = "none"
      /\ positions' = r.positions
      /\ dbPositions' = r.dbPositions
      /\ dbTransactions' = r.dbTransactions
      /\ UNCHANGED <<dbSnapshots, aside, task>>
      /\ last' = Call("server.add_position", ticker, None, None,
                      Held(positions, ticker), "none", r.reply, r.error, None)

\* The body of remove_position (DELETE /api/positions/<ticker>).
ServeRemove(ticker, quantity) ==
  LET r == server_remove_position(positions, dbPositions, dbTransactions,
                                  ticker, quantity)
  IN  /\ request = "remove"
      /\ request' = "none"
      /\ positions' = r.positions
      /\ dbPositions' = r.dbPositions
      /\ dbTransactions' = r.dbTransactions
      /\ UNCHANGED <<dbSnapshots, aside, task>>
      /\ last' = Call("server.remove_position", ticker, quantity, None,
                      Held(positions, ticker), "none", r.reply, r.error, None)

\* reset_account: `for pos in portfolio.positions: db.remove_position(...)`.
ResetLoop ==
  LET r == reset_loop(positions)
  IN  /\ request = "reset"
      /\ request' = r.next
      /\ UNCHANGED <<positions, store, aside, task>>
      /\ last' = Call("server.reset_account", "", None, None, None, "none",
                      r.reply, r.error, None)

\* reset_account: portfolio.positions.clear().
ResetClear ==
  /\ request = "reset_clear"
  /\ request' = "reset_db"
  /\ positions' = <<>>
  /\ UNCHANGED <<store, aside, task>>
  /\ last' = Call("server.reset_account", "", None, None, None, "none", "",
                  "", None)

\* reset_account: db.reset_account().
ResetDb ==
  LET r == reset_db(positions)
  IN  /\ request = "reset_db"
      /\ request' = r.next
      /\ UNCHANGED <<positions, store, aside, task>>
      /\ last' = Call("server.reset_account", "", None, None, None, "none",
                      r.reply, r.error, None)

\* GET /api/analytics.
ServerGetAnalytics ==
  LET r == server_get_analytics(positions)
  IN  /\ UNCHANGED <<positions, store, env>>
      /\ last' = Call("server.get_analytics", "", None, None, None, "none",
                      r.reply, r.error,
                      Some([analytics |-> r.analytics, handed |-> r.handed,
                            history |-> Len(dbSnapshots),
                            held |-> Len(positions)]))

\* A render of the dashboard's "Performance Metrics" section.
AppPerformance ==
  \E snapshots \in get_snapshots(dbSnapshots, SnapshotLimit) :
    \E sorted \in sort_values(snapshots) :
      LET r == app_performance(snapshots, sorted)
      IN  /\ UNCHANGED <<positions, store, env>>
          /\ last' = Call("app.performance", "", None, None, None, "none",
                          r.reply, r.error,
                          Some([analytics |-> r.analytics, handed |-> r.handed,
                                history |-> Len(dbSnapshots),
                                held |-> Len(positions)]))

\* The aggregate together with its valuation history.
NextHistory ==
  \/ \E t \in Symbols, o \in HistoryOrders : AddPosition(t, o[1], o[2], TRUE)
  \/ \E t \in Symbols : RemovePosition(t)
  \/ \E fetch \in HistoryTables : UpdateAllPrices(fetch)
  \/ GetSummary
  \/ Len(dbSnapshots) < MaxSnapshots /\ SaveSnapshot(1)

SpecHistory == Init /\ [][NextHistory]_vars

\* The aggregate under price refreshes.
NextRefresh ==
  \/ \E t \in TickerInputs, o \in HistoryOrders : AddPosition(t, o[1], o[2], TRUE)
  \/ \E t \in Symbols : RemovePosition(t)
  \/ \E fetch \in PriceTables : UpdateAllPrices(fetch)
  \/ LoadPositions

SpecRefresh == Init /\ [][NextRefresh]_vars

\* The aggregate under refreshes and the read-outs of its valuation.
NextValuation ==
  \/ \E t \in Symbols, o \in HistoryOrders : AddPosition(t, o[1], o[2], TRUE)
  \/ \E fetch \in PriceTables : UpdateAllPrices(fetch)
  \/ GetPositionsData
  \/ GetSummary

SpecValuation == Init /\ [][NextValuation]_vars

\* The aggregate under buys, removals and reloads from the database.
NextLifecycle ==
  \/ \E t \in TickerInputs, o \in LifecycleOrders :
       AddPosition(t, o[1], o[2], TRUE)
  \/ \E t \in TickerInputs : RemovePosition(t)
  \/ LoadPositions

SpecLifecycle == Init /\ [][NextLifecycle]_vars

\* The row save_snapshot writes at time stamp for a portfolio worth v whose
\* Positions are priced at their cost.
SnapshotOf(v, stamp) ==
  [snapshot_date |-> stamp, total_value |-> v, total_cost |-> v,
   total_pnl |-> 0, total_pnl_percent |-> Zero]

\* The histories of at most n snapshots over the given values, saved one
\* clock reading apart.
Histories(levels, n) ==
  UNION {{[i \in 1..k |-> SnapshotOf(vs[i], i)] : vs \in [1..k -> levels]} :
           k \in 0..n}

\* calculate_returns over every stored history.
InitReturns ==
  /\ dbPositions = <<>>
  /\ dbTransactions = <<>>
  /\ dbSnapshots \in Histories(ReturnLevels, MaxSeries)
  /\ positions = load_positions(<<>>)
  /\ last = Call("init", "", None, None, None, "none", "", "", None)
  /\ EnvInit

NextReturns == CalculateReturns

SpecReturns == InitReturns /\ [][NextReturns]_vars

\* calculate_max_drawdown over every stored history.
InitDrawdown ==
  /\ dbPositions = <<>>
  /\ dbTransactions = <<>>
  /\ dbSnapshots \in Histories(ValueLevels, MaxHistory)
  /\ positions = load_positions(<<>>)
  /\ last = Call("init", "", None, None, None, "none", "", "", None)
  /\ EnvInit

NextDrawdown == CalculateMaxDrawdown

SpecDrawdown == InitDrawdown /\ [][NextDrawdown]_vars

\* The functions of a return series, over the returns of every stored
\* history.
InitSeries ==
  /\ dbPositions = <<>>
  /\ dbTransactions = <<>>
  /\ dbSnapshots \in Histories(SeriesLevels, MaxSeries)
  /\ positions = load_positions(<<>>)
  /\ last = Call("init", "", None, None, None, "none", "", "", None)
  /\ EnvInit

NextSeries ==
  \/ CalculateSharpeRatio
  \/ \E annualized \in BOOLEAN : CalculateVolatility(annualized)
  \/ CalculateSortinoRatio

SpecSeries == InitSeries /\ [][NextSeries]_vars

\* The return series indexed by some of the periods 1..MaxPeriods.
ReturnSeries ==
  UNION {[P -> {Num(x[1], x[2]) : x \in BetaReturns}] :
           P \in SUBSET (1..MaxPeriods)}

\* The analytics read-outs of the server and the dashboard over a portfolio
\* that is bought, sold and snapshotted.
NextAnalytics ==
  \/ \E t \in Symbols, o \in HistoryOrders : AddPosition(t, o[1], o[2], TRUE)
  \/ \E t \in Symbols : RemovePosition(t)
  \/ Len(dbSnapshots) < MaxSnapshots /\ \E e \in Elapsed : SaveSnapshot(e)
  \/ ServerGetAnalytics
  \/ AppPerformance
  \/ \E answer \in BenchmarkAnswers : GetBenchmarkReturns(answer)

SpecAnalytics == Init /\ [][NextAnalytics]_vars

\* The snapshot table under buys, saves and the two readers of the
\* valuation history, the dashboard and GET /api/analytics.
NextSnapshots ==
  \/ AddPosition("AAPL", 10, 150, TRUE)
  \/ Len(dbSnapshots) < MaxSaves /\ \E e \in Elapsed : SaveSnapshot(e)
  \/ AppPerformance
  \/ ServerGetAnalytics

SpecSnapshots == Init /\ [][NextSnapshots]_vars

\* The routes that mutate the shared Portfolio.
Routes == {"add", "remove", "reset"}

\* The server: its background thread and the request it is handling, over a
\* Portfolio that buys and removals populate and empty.
NextServer ==
  \/ TaskCheck
  \/ TaskUpdate
  \/ TaskSleep
  \/ \E route \in Routes : ServeBegin(route)
  \/ \E t \in HandlerTickers, o \in FormOrders : ServeAdd(t, o[1], o[2])
  \/ \E t \in HandlerTickers, q \in SellRequests : ServeRemove(t, q)
  \/ ResetLoop
  \/ ResetClear
  \/ ResetDb
  \/ \E o \in LifecycleOrders : AddPosition("AAPL", o[1], o[2], TRUE)
  \/ RemovePosition("AAPL")

SpecServer == Init /\ [][NextServer]_vars

\* The server with its background thread kept running: the thread is an
\* operating-system thread of its own, so each of its steps is taken once it
\* stays possible, and time.sleep(30) returns.
SpecServerLive ==
  /\ SpecServer
  /\ WF_vars(TaskCheck)
  /\ WF_vars(TaskUpdate)
  /\ WF_vars(TaskSleep)

\* The price cache under look-ups at advancing clock readings.
NextCache ==
  \E t \in Symbols, answer \in FetchResults, e \in CacheElapsed, lag \in Elapsed :
    GetCurrentPrice(t, answer, e, lag)

SpecCache == Init /\ [][NextCache]_vars

\* calculate_beta over every pair of return series.
InitBeta ==
  /\ dbPositions = <<>>
  /\ dbTransactions = <<>>
  /\ dbSnapshots = <<>>
  /\ positions = load_positions(<<>>)
  /\ last = Call("init", "", None, None, None, "none", "", "", None)
  /\ analyticsArgs \in [portfolio : ReturnSeries, market : ReturnSeries]
  /\ now = 0
  /\ task = "check"
  /\ request = "none"
  /\ cache = <<>>

NextBeta == CalculateBeta

SpecBeta == InitBeta /\ [][NextBeta]_vars

\* ------------------------------------------------------------------ claims
Unchanged == UNCHANGED <<positions, dbPositions, dbTransactions, dbSnapshots>>

\* Sum of f[i] over the finite index set S.
RECURSIVE SumOver(_, _)
SumOver(S, f) ==
  IF S = {} THEN 0
  ELSE LET i == CHOOSE x \in S : TRUE IN f[i] + SumOver(S \ {i}, f)

\* Rows ever inserted for ticker t; t was only bought when all are active.
RowsOf(t) == {i \in 1..Len(dbPositions) : dbPositions[i].ticker = t}
OnlyBought(t) ==
  RowsOf(t) # {} /\ \A i \in RowsOf(t) : dbPositions[i].active = 1

\* C1: after successful buys of one ticker with no sell in between, the
\* Position held for the ticker has the summed quantity, and its
\* quantity * entry_price is the sum of the buys' quantity * price.
C1_MergedCostBasis ==
  \A t \in Symbols :
    OnlyBought(t) =>
      LET i == get_position(positions, t)
      IN  /\ i # 0
          /\ positions[i].quantity =
               SumOver(RowsOf(t), [r \in RowsOf(t) |-> dbPositions[r].quantity])
          /\ cost_basis(positions[i]) =
               SumOver(RowsOf(t), [r \in RowsOf(t) |->
                 dbPositions[r].quantity * dbPositions[r].entry_price])

\* C2: no two Positions of the active set share a ticker.
C2_UniqueTickers ==
  \A i, j \in 1..Len(positions) :
    i # j => positions[i].ticker # positions[j].ticker

\* C3: every active Position has quantity > 0 and entry_price > 0.
C3_PositiveQuantityAndPrice ==
  \A i \in 1..Len(positions) :
    positions[i].quantity > 0 /\ positions[i].entry_price > 0

\* C4: add_position with quantity <= 0, price <= 0 or a ticker the price
\* source reports invalid raises the invalid-input error and leaves the
\* position list, the positions table and the transaction log as they were.
C4_RejectedBeforeMutation ==
  [][\A t \in TickerInputs, o \in Orders, v \in BOOLEAN :
       (AddPosition(t, o[1], o[2], v) /\ (o[1] <= 0 \/ o[2] <= 0 \/ ~v))
         => (Unchanged /\ last'.raised = "ValueError")]_vars

\* C5: a sell of q with 0 < q < held quantity lowers the Position's quantity by
\* exactly q, keeps it in the list and leaves every other field and every
\* other Position as it was.
C5_PartialSellDecrements ==
  [][\A t \in HandlerTickers, q \in SellQuantities :
       LET i == get_position(positions, t)
       IN  ( /\ ServerRemovePosition(t, Some(q)) \/ AppSell(t, q)
             /\ i # 0
             /\ 0 < q
             /\ q < positions[i].quantity )
             => positions' = [positions EXCEPT ![i].quantity = @ - q]]_vars

C8_FullRemoval ==
  [][\A t \in TickerInputs :
       (RemovePosition(t) /\ get_position(positions, t) # 0)
         => get_position(positions', t) = 0]_vars

\* C9: update_all_prices sets current_price of every Position whose lookup
\* gave a price, keeps current_price where the lookup gave none or raised,
\* raises nothing, and changes no quantity, entry_price, ticker, id, nor the
\* list of Positions nor the store.
C9_RefreshFrame ==
  [][\A fetch \in PriceTables :
       (last'.value = <<fetch>> /\ UpdateAllPrices(fetch)) =>
         /\ Len(positions') = Len(positions)
         /\ \A i \in 1..Len(positions) :
              LET answer == fetch[positions[i].ticker]
              IN  /\ positions'[i].id = positions[i].id
                  /\ positions'[i].ticker = positions[i].ticker
                  /\ positions'[i].quantity = positions[i].quantity
                  /\ positions'[i].entry_price = positions[i].entry_price
                  /\ positions'[i].current_price =
                       IF answer.kind = "data" THEN <<answer.close>>
                       ELSE positions[i].current_price
         /\ UNCHANGED store
         /\ last'.raised = "none"]_vars

\* C9 witness: a refresh ran in which one held ticker got a price and another,
\* priced before at a different value, had an empty or failed lookup.
C9_Witness ==
  /\ last.op = "update_all_prices"
  /\ \E i, j \in 1..Len(positions) :
       /\ last.value[1][positions[i].ticker].kind = "data"
       /\ positions[i].current_price = <<last.value[1][positions[i].ticker].close>>
       /\ last.value[1][positions[j].ticker].kind = "exception"
       /\ positions[j].current_price # None
       /\ positions[j].current_price # positions[i].current_price

\* Totals recomputed from the Position list, Position by Position.
Priced(ps) == {i \in 1..Len(ps) : ps[i].current_price # <<>>}
CostOf(ps) ==
  SumOver(1..Len(ps), [i \in 1..Len(ps) |-> ps[i].quantity * ps[i].entry_price])
ValueOf(ps) ==
  SumOver(Priced(ps),
          [i \in Priced(ps) |-> ps[i].quantity * ps[i].current_price[1]])
SummaryOf(ps) ==
  [total_positions |-> Len(ps),
   total_cost_basis |-> CostOf(ps),
   total_market_value |-> ValueOf(ps),
   total_unrealized_pnl |-> ValueOf(ps) - CostOf(ps),
   total_unrealized_pnl_percent |->
     IF CostOf(ps) = 0 THEN [num |-> 0, den |-> 1]
     ELSE Ratio((ValueOf(ps) - CostOf(ps)) * 100, CostOf(ps)),
   allocation |->
     IF ValueOf(ps) = 0 THEN <<>>
     ELSE [t \in {ps[i].ticker : i \in Priced(ps)} |->
             LET k == CHOOSE i \in Priced(ps) :
                        /\ ps[i].ticker = t
                        /\ \A j \in Priced(ps) : ps[j].ticker = t => j <= i
             IN  Ratio(ps[k].quantity * ps[k].current_price[1] * 100,
                       ValueOf(ps))]]

\* C10: get_summary changes no Position, no stored row and no snapshot, and
\* the summary it returns is the one recomputed from the current Positions.
C10_SummaryPure ==
  /\ [](last.op = "get_summary" => last.value = <<SummaryOf(positions)>>)
  /\ [][GetSummary => Unchanged]_vars

\* C10 witness: a summary taken after a refresh that follows a snapshot, so
\* that its market value differs from the snapshot's.
C10_Witness ==
  /\ last.op = "get_summary"
  /\ dbSnapshots # <<>>
  /\ Priced(positions) # {}
  /\ last.value[1].total_market_value # dbSnapshots[1].total_value
  /\ last.value[1].total_cost_basis # 0

\* The derived values of a Position recomputed from its four stored fields.
CostBasisOf(pos) == pos.quantity * pos.entry_price
MarketValueOf(pos) ==
  IF pos.current_price = <<>> THEN <<>>
  ELSE <<pos.quantity * pos.current_price[1]>>
PnLOf(pos) ==
  IF pos.current_price = <<>> THEN <<>>
  ELSE <<pos.quantity * pos.current_price[1] - pos.quantity * pos.entry_price>>
PnLPercentOf(pos) ==
  IF pos.current_price = <<>> THEN <<>>
  ELSE <<Ratio(PnLOf(pos)[1] * 100, CostBasisOf(pos))>>
DictOf(pos) ==
  [id |-> pos.id, ticker |-> pos.ticker, quantity |-> pos.quantity,
   entry_price |-> pos.entry_price, current_price |-> pos.current_price,
   cost_basis |-> CostBasisOf(pos), market_value |-> MarketValueOf(pos),
   unrealized_pnl |-> PnLOf(pos), unrealized_pnl_percent |-> PnLPercentOf(pos)]

\* C11: for every Position, cost_basis is quantity * entry_price;
\* market_value, unrealized_pnl and unrealized_pnl_percent are None exactly
\* when current_price is None; otherwise market_value is quantity *
\* current_price, unrealized_pnl is market_value - cost_basis and, where the
\* cost basis is not 0, unrealized_pnl_percent is unrealized_pnl / cost_basis
\* * 100; get_positions_data returns these values Position by Position.
C11_DerivedValues ==
  /\ \A i \in 1..Len(positions) :
       LET pos == positions[i]
       IN  /\ cost_basis(pos) = CostBasisOf(pos)
           /\ market_value(pos) = MarketValueOf(pos)
           /\ unrealized_pnl(pos) = PnLOf(pos)
           /\ (unrealized_pnl_percent(pos).raised = "none"
                 /\ unrealized_pnl_percent(pos).value = <<>>)
                <=> pos.current_price = <<>>
           /\ cost_basis(pos) # 0 =>
                /\ unrealized_pnl_percent(pos).raised = "none"
                /\ unrealized_pnl_percent(pos).value = PnLPercentOf(pos)
  /\ (last.op = "get_positions_data" /\ last.raised = "none") =>
       last.value = <<[i \in 1..Len(positions) |-> DictOf(positions[i])]>>

\* C11 witness: get_positions_data returned, for 10 shares bought at 150 and
\* priced at 160, a market value of 1600, a P&L of 100 and 20/3 percent, next
\* to a Position that has no price.
C11_Witness ==
  /\ last.op = "get_positions_data"
  /\ last.raised = "none"
  /\ \E i, j \in 1..Len(positions) :
       /\ positions[i].quantity = 10
       /\ positions[i].entry_price = 150
       /\ last.value[1][i].market_value = <<1600>>
       /\ last.value[1][i].unrealized_pnl = <<100>>
       /\ last.value[1][i].unrealized_pnl_percent = <<[num |-> 20, den |-> 3]>>
       /\ last.value[1][j].market_value = <<>>
       /\ last.value[1][j].unrealized_pnl_percent = <<>>

\* C12: a priced Position whose cost basis is 0 has unrealized_pnl_percent 0
\* and reading it (as get_positions_data does) raises nothing; the
\* Portfolio's total_unrealized_pnl_percent is 0 when its total cost basis
\* is 0.
C12_ZeroCostBasisPercent ==
  /\ \A i \in 1..Len(positions) :
       (positions[i].current_price # <<>> /\ cost_basis(positions[i]) = 0) =>
         unrealized_pnl_percent(positions[i]) =
           [raised |-> "none", value |-> <<[num |-> 0, den |-> 1]>>]
  /\ last.op = "get_positions_data" => last.raised = "none"
  /\ total_cost_basis(positions) = 0 =>
       total_unrealized_pnl_percent(positions) = [num |-> 0, den |-> 1]

\* C13: in the Portfolio totals a Position without current_price counts at
\* its cost basis in total_market_value, and so adds 0 to
\* total_unrealized_pnl, while its own market_value stays None; get_summary
\* reports these totals.
C13_UnpricedAtCost ==
  LET atCost == SumOver(1..Len(positions) \ Priced(positions),
                        [i \in 1..Len(positions) |->
                           positions[i].quantity * positions[i].entry_price])
      pricedCost == SumOver(Priced(positions),
                            [i \in 1..Len(positions) |->
                               positions[i].quantity * positions[i].entry_price])
  IN  /\ \A i \in 1..Len(positions) :
           positions[i].current_price = <<>> => market_value(positions[i]) = <<>>
      /\ total_market_value(positions) = ValueOf(positions) + atCost
      /\ total_unrealized_pnl(positions) = ValueOf(positions) - pricedCost
      /\ last.op = "get_summary" =>
           /\ last.value[1].total_market_value = ValueOf(positions) + atCost
           /\ last.value[1].total_unrealized_pnl =
                ValueOf(positions) - pricedCost

\* Rows of ticker t that were closed by a removal.
ClosedRows(t) ==
  {k \in 1..Len(dbPositions) :
     dbPositions[k].ticker = t /\ dbPositions[k].active = 0}

KeptSteps(v) == {i \in 1..(Len(v) - 1) : ~(v[i] = 0 /\ v[i + 1] = 0)}
KeptStep(v, k) ==
  CHOOSE i \in KeptSteps(v) : Cardinality({j \in KeptSteps(v) : j <= i}) = k

\* C15 as stated: calculate_returns(v) is empty for a series of length 0 or
\* 1 and otherwise has length Len(v) - 1, its i-th element being
\* (v[i+1] - v[i]) / v[i] (1-based) wherever v[i] is not 0.
C15_ReturnsLength ==
  last.op = "calculate_returns" =>
    LET v == HistoryValues
        r == last.value[1]
    IN  IF Len(v) < 2 THEN r = <<>>
        ELSE /\ Len(r) = Len(v) - 1
             /\ \A i \in 1..Len(r) :
                  v[i] # 0 =>
                    r[i] = [kind |-> "num",
                            num |-> Ratio(v[i + 1] - v[i], v[i]).num,
                            den |-> Ratio(v[i + 1] - v[i], v[i]).den]

\* C15 as amended: calculate_returns(v) is empty for a series of length 0 or
\* 1; otherwise it has one element per step of v except the steps from 0 to
\* 0, which are dropped, in the order of the steps, and the element of a step
\* from v[i] # 0 is (v[i+1] - v[i]) / v[i]; so its length is Len(v) - 1
\* whenever no value before the last is 0.
C15_ReturnsDefined ==
  last.op = "calculate_returns" =>
    LET v == HistoryValues
        r == last.value[1]
    IN  /\ last.raised = "none"
        /\ Len(v) < 2 => r = <<>>
        /\ Len(r) = Cardinality(KeptSteps(v))
        /\ (\A i \in 1..(Len(v) - 1) : v[i] # 0) =>
             Len(r) = IF Len(v) = 0 THEN 0 ELSE Len(v) - 1
        /\ \A k \in 1..Len(r) :
             LET i == KeptStep(v, k)
             IN  v[i] # 0 =>
                   r[k] = [kind |-> "num",
                           num |-> Ratio(v[i + 1] - v[i], v[i]).num,
                           den |-> Ratio(v[i + 1] - v[i], v[i]).den]

\* C15 witness: calculate_returns of <<100, 110, 99>> gave <<1/10, -1/10>>.
C15_Witness ==
  /\ last.op = "calculate_returns"
  /\ HistoryValues = <<100, 110, 99>>
  /\ last.value[1] = <<[kind |-> "num", num |-> 1, den |-> 10],
                       [kind |-> "num", num |-> -1, den |-> 10]>>

\* C16: calculate_returns raises nothing, and a step that starts from a
\* valuation of 0 yields no element of the result (its change is NaN and is
\* dropped): the result has one finite element per step that starts from a
\* non-zero valuation, and no infinite one.
C16_ZeroValuationExcluded ==
  last.op = "calculate_returns" =>
    LET v == HistoryValues
        r == last.value[1]
    IN  /\ last.raised = "none"
        /\ \A k \in 1..Len(r) : r[k].kind = "num"
        /\ Len(r) = Cardinality({i \in 1..(Len(v) - 1) : v[i] # 0})

\* The running maximum M[i] of v[1..i], and the drawdown of v at i in percent.
RunningMax(v, i) == CHOOSE m \in {v[j] : j \in 1..i} : \A j \in 1..i : m >= v[j]
DrawdownPercent(v, i) ==
  [kind |-> "num",
   num |-> Ratio(100 * (v[i] - RunningMax(v, i)), RunningMax(v, i)).num,
   den |-> Ratio(100 * (v[i] - RunningMax(v, i)), RunningMax(v, i)).den]

\* C17: calculate_max_drawdown(v) returns {0, 0} for a series of fewer than 2
\* observations; otherwise its value is the least v[i] - M[i] and, where no
\* running maximum M[i] is 0, its percentage is the least
\* 100 * (v[i] - M[i]) / M[i], M[i] being the running maximum of v[1..i];
\* <<100, 120, 90, 150, 80>> gives -140/3 percent and -70.
C17_MaxDrawdown ==
  last.op = "calculate_max_drawdown" =>
    LET v == HistoryValues
        res == last.value[1]
        n == Len(v)
    IN  /\ last.raised = "none"
        /\ n < 2 =>
             res = [pct |-> [kind |-> "num", num |-> 0, den |-> 1],
                    value |-> [kind |-> "num", num |-> 0, den |-> 1]]
        /\ n >= 2 =>
             /\ res.value.kind = "num"
             /\ res.value.den = 1
             /\ \E i \in 1..n : res.value.num = v[i] - RunningMax(v, i)
             /\ \A i \in 1..n : res.value.num <= v[i] - RunningMax(v, i)
             /\ (\A i \in 1..n : RunningMax(v, i) # 0) =>
                  /\ \E i \in 1..n : res.pct = DrawdownPercent(v, i)
                  /\ \A i \in 1..n : FLeq(res.pct, DrawdownPercent(v, i))
        /\ v = <<100, 120, 90, 150, 80>> =>
             res = [pct |-> [kind |-> "num", num |-> -140, den |-> 3],
                    value |-> [kind |-> "num", num |-> -70, den |-> 1]]

\* A series of finite returns, and one of two or more equal finite returns
\* (standard deviation 0).
FiniteSeries(r) == \A i \in 1..Len(r) : r[i].kind = "num"
FlatSeries(r) ==
  Len(r) >= 2 /\ FiniteSeries(r) /\ \A i \in 1..Len(r) : r[i] = r[1]

\* C18: calculate_sharpe_ratio returns exactly 0, and neither NaN nor an
\* exception, for a series of 0 or 1 finite returns and for a series whose
\* standard deviation is 0.
C18_SharpeDegenerate ==
  last.op = "calculate_sharpe_ratio" =>
    LET r == HistoryReturns
    IN  ((Len(r) < 2 /\ FiniteSeries(r)) \/ FlatSeries(r)) =>
          /\ last.raised = "none"
          /\ last.value = <<[kind |-> "num", num |-> 0, den |-> 1]>>

\* C19: calculate_sortino_ratio returns exactly 0, and neither NaN nor an
\* exception, for a series of 0 or 1 finite returns and whenever the excess
\* returns below 0 are none, a single one, or have zero spread.
C19_SortinoDegenerate ==
  last.op = "calculate_sortino_ratio" =>
    LET r == HistoryReturns
        below == SelectSeq(r, LAMBDA x : x.num * 12725 < x.den)
    IN  (FiniteSeries(r) /\ (Len(r) < 2 \/ Len(below) < 2 \/ FlatSeries(below)))
          =>
          /\ last.raised = "none"
          /\ last.value = <<[kind |-> "num", num |-> 0, den |-> 1]>>

\* C20: calculate_volatility returns 0, and not NaN, for a series of 0 or 1
\* finite returns, annualized or not.
C20_VolatilityDegenerate ==
  last.op = "calculate_volatility" =>
    LET r == HistoryReturns
    IN  (Len(r) < 2 /\ FiniteSeries(r)) =>
          /\ last.raised = "none"
          /\ last.value[1].volatility = [kind |-> "num", num |-> 0, den |-> 1]

\* C21: calculate_beta uses only the periods both series have; it returns 0
\* when fewer than 2 such periods exist or when the market returns are equal
\* over them (variance 0), and otherwise cov(portfolio, market) / var(market)
\* over them, here written as
\* (n * sum(p*m) - sum(p) * sum(m)) / (n * sum(m*m) - sum(m)^2);
\* nothing is raised.
C21_BetaAligned ==
  last.op = "calculate_beta" =>
    LET p == last.value[1].portfolio
        m == last.value[1].market
        S == DOMAIN p \cap DOMAIN m
        n == [kind |-> "num", num |-> Cardinality(S), den |-> 1]
        sp == FSumOver(S, p)
        sm == FSumOver(S, m)
        spm == FSumOver(S, [i \in S |-> FMul(p[i], m[i])])
        smm == FSumOver(S, [i \in S |-> FMul(m[i], m[i])])
        top == FSub(FMul(n, spm), FMul(sp, sm))
        bottom == FSub(FMul(n, smm), FMul(sm, sm))
    IN  /\ last.raised = "none"
        /\ last.value[1].beta.kind = "num"
        /\ (Cardinality(S) < 2 \/ \A i, j \in S : m[i] = m[j]) =>
             last.value[1].beta.num = 0
        /\ (Cardinality(S) >= 2 /\ \E i, j \in S : m[i] # m[j]) =>
             /\ bottom.num # 0
             /\ last.value[1].beta.num * bottom.num * top.den
                  = top.num * bottom.den * last.value[1].beta.den

\* C21 witness: a beta other than 0 was computed from two series that share
\* two periods, the market series having a third period the portfolio series
\* lacks, with a return that differs from its other two.
C21_Witness ==
  /\ last.op = "calculate_beta"
  /\ Cardinality(DOMAIN last.value[1].portfolio
                   \cap DOMAIN last.value[1].market) = 2
  /\ \E k \in DOMAIN last.value[1].market \ DOMAIN last.value[1].portfolio :
       \A i \in DOMAIN last.value[1].portfolio \cap DOMAIN last.value[1].market :
         last.value[1].market[k] # last.value[1].market[i]
  /\ last.value[1].beta.num # 0

C25_BenchmarkUnavailable ==
  (last.op = "get_benchmark_returns" /\ last.log # "data")
    => (last.raised = "none" /\ last.value = Some(<<>>))

ActiveRows(rows, t) ==
  {i \in 1..Len(rows) : rows[i].ticker = Upper(t) /\ rows[i].active = 1}

\* C27: on the server route and on the Sell button, a sell of part of a held
\* Position leaves the ticker one active row whose quantity is the quantity
\* that remains, a sell of all of it leaves the ticker no active row, and
\* after either the Position in memory and the active row agree.
C27_PersistedSell ==
  [][\A t \in HandlerTickers, q \in SellQuantities :
       LET i == get_position(positions, t)
       IN  ( /\ ServerRemovePosition(t, Some(q)) \/ AppSell(t, q)
             /\ i # 0
             /\ 0 < q
             /\ q <= positions[i].quantity )
             => IF q < positions[i].quantity
                  THEN /\ \E k \in ActiveRows(dbPositions', t) :
                            dbPositions'[k].quantity = positions[i].quantity - q
                       /\ get_position(positions', t) # 0
                       /\ positions'[get_position(positions', t)].quantity
                            = positions[i].quantity - q
                  ELSE /\ ActiveRows(dbPositions', t) = {}
                       /\ get_position(positions', t) = 0]_vars

C29_CacheFreshness ==
  [][last'.op = "get_current_price" =>
       LET t == last'.ticker
           call == last'.value[1]
           fresh == /\ t \in DOMAIN cache
                    /\ call.checked - cache[t].timestamp < cache_duration
       IN  /\ call.fetched = ~fresh
           /\ fresh => /\ call.price = <<cache[t].price>>
                       /\ cache' = cache
           /\ (~fresh /\ last'.log = "data") =>
                /\ call.price = <<call.close>>
                /\ DOMAIN cache' = DOMAIN cache \cup {t}
                /\ cache'[t].price = call.close
                /\ cache'[t].timestamp >= call.checked
                /\ \A u \in DOMAIN cache \ {t} : cache'[u] = cache[u]
           /\ (~fresh /\ last'.log # "data") =>
                /\ call.price = <<>>
                /\ cache' = cache]_vars

\* C29 witness: a look-up found an entry exactly cache_duration old, asked
\* the source, got nothing and returned None, the expired entry still in
\* the cache.
C29_Witness ==
  /\ last.op = "get_current_price"
  /\ last.ticker \in DOMAIN cache
  /\ last.value[1].checked - cache[last.ticker].timestamp = cache_duration
  /\ last.value[1].fetched
  /\ last.value[1].price = <<>>

\* The background thread has just had an update end in an exception.
UpdateFailed ==
  /\ last.op = "background.update"
  /\ last.log \in ExceptionClasses

\* C30: the background thread is never ended by an exception of its update:
\* the exception is absorbed, the thread sleeps, and after every failed
\* update it comes back to the head of its loop and attempts the next
\* update, which calls portfolio.update_prices() again unless the portfolio
\* has been emptied meanwhile.
C30_TaskNeverStops ==
  /\ [](task # "dead")
  /\ [](UpdateFailed => task = "sleep")
  /\ (UpdateFailed ~> task = "check")
  /\ (UpdateFailed ~> (task = "update" \/ positions = <<>>))

\* C30 witness: with a Position held, an update has failed and the thread is
\* in its sleep.
C30_Witness ==
  /\ UpdateFailed
  /\ last.log = "AttributeError"
  /\ task = "sleep"
  /\ positions # <<>>

====
